---- MODULE Spec2Model ----
(***************************************************************************)
(* Model of the glTF loader of the engine (src/src/assets/gltf.rs):        *)
(* load_gltf, load_primitive and LoadedMaterial::to_material; and of the   *)
(* Button widget (src/src/ui/widget.rs).                                   *)
(*                                                                         *)
(* Encoding.  A Rust Vec is a TLA+ sequence; the Rust index i (0-based) is *)
(* position i + 1 of the sequence, and every index VALUE the program       *)
(* stores (a child index, a root index, a vertex index) keeps its Rust     *)
(* value.  Option<T> is [tag |-> "None"] or [tag |-> "Some", v |-> x].     *)
(* An f32 is a fixed-point integer: the value x is the integer x * Den.    *)
(* Only values k / Den with small k are used, for which every f32          *)
(* operation of the code (1.0 - r, 32.0 * s, s + 1.0, x / 255.0) is exact. *)
(***************************************************************************)
EXTENDS Integers, Sequences, FiniteSets, TLC

VARIABLES
    asset,            \* what gltf::import(path) yields for the path of the call
    result,           \* the GltfResult<LoadedGltf> of load_gltf, or Pending
    primitive,        \* the source primitive handed to load_primitive
    prim_frame,       \* load_primitive's locals and return value, or Pending
    loaded_material,  \* the LoadedMaterial to_material is called on
    engine_material,  \* the Material returned by to_material, or Pending
    button,           \* the Button's private fields: state and clicked
    last_call,        \* the last call on the Button: operation, argument, the button
                      \* and the release count before it, and the value returned
    releases          \* on_mouse_up calls that returned true since the last
                      \* was_clicked (or since Button::new)

button_vars == <<button, last_call, releases>>

vars ==
    <<asset, result, primitive, prim_frame, loaded_material, engine_material,
      button, last_call, releases>>

-----------------------------------------------------------------------------
(* Bounds of the model *)

MaxVerts == 2      \* longest attribute list (positions, normals, UVs) of a primitive
MaxIndices == 2    \* longest source index list of a primitive
MaxNodes == 3      \* most nodes of a document
MaxEdges == 2      \* most child entries, summed over a document's nodes
MaxSceneNodes == 2 \* longest node list of a default scene
MaxMeshes == 2     \* most meshes of a document
MaxPrims == 3      \* most primitives, summed over a document's meshes
MaxReleases == 2   \* most releases counted between two was_clicked calls

-----------------------------------------------------------------------------
(* Values *)

None == [tag |-> "None"]
Some(x) == [tag |-> "Some", v |-> x]
Pending == [tag |-> "Pending"]

\* f32 values are integers scaled by Den
Den == 8
F(n) == n * Den
FSub(a, b) == a - b
FAdd(a, b) == a + b
FMul(a, b) == (a * b) \div Den

\* `as u32` and the widening to u32: the value modulo 2^32.  Every length and index
\* of the model is far below 2^31, the largest integers TLC handles, and is kept.
U32(n) == n

Min(a, b) == IF a < b THEN a ELSE b

\* All sequences over S of length at most n
SeqUpTo(S, n) == UNION {[1..k -> S] : k \in 0..n}

\* (0..n).collect()
RangeVec(n) == [j \in 1..n |-> j - 1]

-----------------------------------------------------------------------------
(* load_primitive *)

\* reader.read_positions(): None when the primitive has no POSITION attribute
ReadPositions(prim) == prim.positions

\* reader.read_normals()
ReadNormals(prim) == prim.normals

\* reader.read_tex_coords(0): None, or the channel in its stored component type
ReadTexCoords0(prim) == prim.tex_coords0

\* reader.read_indices(): None, or the index list
ReadIndices(prim) == prim.indices

\* ReadTexCoords::into_f32: F32 data is passed through, normalized U8 data is x / 255.0
IntoF32(tc) ==
    IF tc.ty = "F32" THEN tc.data
    ELSE [j \in 1..Len(tc.data) |->
            <<(tc.data[j][1] * Den) \div 255, (tc.data[j][2] * Den) \div 255>>]

\* ReadIndices::into_u32: u8 / u16 / u32 indices widened to u32, the value kept
IntoU32(ix) == [j \in 1..Len(ix) |-> U32(ix[j])]

NormalsDefaultZ(prim, positions) ==
    IF ReadNormals(prim).tag = "Some" THEN ReadNormals(prim).v
    ELSE [j \in 1..Len(positions) |-> <<F(0), F(0), F(1)>>]

\* let normals = reader.read_normals().map(collect).unwrap_or_else(|| vec![[0,1,0]; positions.len()])
Normals(prim, positions) ==
    IF ReadNormals(prim).tag = "Some" THEN ReadNormals(prim).v
    ELSE [j \in 1..Len(positions) |-> <<F(0), F(1), F(0)>>]

\* let uvs = reader.read_tex_coords(0).map(into_f32.collect).unwrap_or_else(|| vec![[0,0]; positions.len()])
Uvs(prim, positions) ==
    IF ReadTexCoords0(prim).tag = "Some" THEN IntoF32(ReadTexCoords0(prim).v)
    ELSE [j \in 1..Len(positions) |-> <<F(0), F(0)>>]

\* positions.iter().zip(normals.iter()).zip(uvs.iter()).map(Vertex {..}).collect():
\* zip stops at the shortest of the three lists
BuildVertices(positions, normals, uvs) ==
    [j \in 1..Min(Len(positions), Min(Len(normals), Len(uvs))) |->
        [position |-> positions[j], normal |-> normals[j], uv |-> uvs[j]]]

IndicesFromPositions(prim, positions, vertices) ==
    IF ReadIndices(prim).tag = "Some" THEN IntoU32(ReadIndices(prim).v)
    ELSE RangeVec(U32(Len(positions)))

\* let indices = reader.read_indices().map(into_u32.collect)
\*                     .unwrap_or_else(|| (0..vertices.len() as u32).collect())
Indices(prim, positions, vertices) ==
    IF ReadIndices(prim).tag = "Some" THEN IntoU32(ReadIndices(prim).v)
    ELSE RangeVec(U32(Len(vertices)))

\* primitive.material().index()
MaterialIndex(prim) == prim.material

\* The locals of load_primitive when it returns, and its return value.  The `?` on
\* read_positions returns None before any other local is computed.
load_primitive_frame(prim) ==
    IF ReadPositions(prim).tag = "None"
    THEN [tag |-> "Returned", positions |-> None, normals |-> None, uvs |-> None,
          ret |-> None]
    ELSE LET positions == ReadPositions(prim).v
             normals == Normals(prim, positions)
             uvs == Uvs(prim, positions)
             vertices == BuildVertices(positions, normals, uvs)
             indices == Indices(prim, positions, vertices)
         IN  [tag |-> "Returned",
              positions |-> Some(positions),
              normals |-> Some(normals),
              uvs |-> Some(uvs),
              ret |-> Some([vertices |-> vertices,
                            indices |-> indices,
                            material_index |-> MaterialIndex(prim)])]

load_primitive(prim) == load_primitive_frame(prim).ret

-----------------------------------------------------------------------------
(* Source primitives of the load_primitive specification *)

PositionValues == {<<F(0), F(0), F(0)>>, <<F(1), F(0), F(0)>>}
NormalValues == {<<F(1), F(0), F(0)>>}
UvValuesF32 == {<<Den \div 2, F(1)>>}
UvValuesU8 == {<<255, 0>>}

OptionOf(S) == {None} \cup {Some(x) : x \in S}

TexCoordSources ==
    {[ty |-> "F32", data |-> d] : d \in SeqUpTo(UvValuesF32, MaxVerts)}
    \cup {[ty |-> "U8", data |-> d] : d \in SeqUpTo(UvValuesU8, MaxVerts)}

\* Source indices may name a vertex the primitive does not have: nothing between the
\* file and load_primitive compares an index value with the vertex count.
SourcePrimitives ==
    [positions : OptionOf(SeqUpTo(PositionValues, MaxVerts)),
     normals : OptionOf(SeqUpTo(NormalValues, MaxVerts)),
     tex_coords0 : OptionOf(TexCoordSources),
     indices : OptionOf(SeqUpTo(0..MaxVerts, MaxIndices)),
     material : OptionOf({0})]

-----------------------------------------------------------------------------
(* LoadedMaterial::to_material *)

\* Vec3::new(self.base_color[0], self.base_color[1], self.base_color[2])
Color(m) == <<m.base_color[1], m.base_color[2], m.base_color[3]>>

\* 1.0 - self.roughness
Specular(m) == FSub(F(1), m.roughness)

ShininessNoOffset(m) == FMul(F(32), FSub(F(1), m.roughness))

\* 32.0 * (1.0 - self.roughness) + 1.0
Shininess(m) == FAdd(FMul(F(32), FSub(F(1), m.roughness)), F(1))

\* self.base_color_texture.is_some()
UseTexture(m) == m.base_color_texture.tag = "Some"

to_material(m) ==
    [color |-> Color(m),
     specular |-> Specular(m),
     shininess |-> Shininess(m),
     use_texture |-> UseTexture(m)]

\* format!("texture_{}", index)
TextureName(index) == [prefix |-> "texture_", index |-> index]

ColorLevels == {F(0), F(1)}

LoadedMaterials ==
    [name : {"Unnamed"},
     base_color : [1..4 -> ColorLevels],
     metallic : {F(0)},
     roughness : 0..Den,
     base_color_texture : OptionOf({TextureName(0)})]

-----------------------------------------------------------------------------
(* load_gltf *)

\* Option::unwrap_or
UnwrapOr(opt, default) == IF opt.tag = "Some" THEN opt.v ELSE default

MapImportErrorByKind(e) ==
    IF e = "Io" THEN [kind |-> "IoError", msg |-> e] ELSE [kind |-> "ParseError", msg |-> e]

\* .map_err(|e| GltfError::IoError(e.to_string()))
MapImportError(e) == [kind |-> "IoError", msg |-> e]

\* the closure of document.materials().map(..)
LoadMaterial(mat) ==
    [name |-> UnwrapOr(mat.name, "Unnamed"),
     base_color |-> mat.base_color_factor,
     metallic |-> mat.metallic_factor,
     roughness |-> mat.roughness_factor,
     base_color_texture |->
        IF mat.base_color_texture.tag = "Some"
        THEN Some(TextureName(mat.base_color_texture.v))
        ELSE None]

RECURSIVE MapWhilePrimitives(_, _)
MapWhilePrimitives(prims, k) ==
    IF k > Len(prims) \/ load_primitive(prims[k]).tag = "None" THEN <<>>
    ELSE <<load_primitive(prims[k]).v>> \o MapWhilePrimitives(prims, k + 1)

\* mesh.primitives().filter_map(|prim| load_primitive(&prim, &buffers)).collect(),
\* from the primitive at position k on
RECURSIVE FilterMapPrimitives(_, _)
FilterMapPrimitives(prims, k) ==
    IF k > Len(prims) THEN <<>>
    ELSE LET r == load_primitive(prims[k])
         IN  (IF r.tag = "Some" THEN <<r.v>> ELSE <<>>) \o FilterMapPrimitives(prims, k + 1)

\* the closure of document.meshes().map(..)
LoadMesh(mesh) ==
    [name |-> UnwrapOr(mesh.name, "Unnamed"),
     primitives |-> FilterMapPrimitives(mesh.primitives, 1)]

\* the closure of document.nodes().map(..); the source transform is held decomposed
LoadNode(node) ==
    [name |-> UnwrapOr(node.name, "Node"),
     translation |-> node.transform.translation,
     rotation |-> node.transform.rotation,
     scale |-> node.transform.scale,
     mesh_index |-> node.mesh,
     children |-> node.children]

MarkChildClamped(is_child, child_idx) ==
    IF Len(is_child) = 0 THEN is_child
    ELSE [is_child EXCEPT ![Min(child_idx, Len(is_child) - 1) + 1] = TRUE]

\* if child_idx < is_child.len() { is_child[child_idx] = true; }
MarkChild(is_child, child_idx) ==
    IF child_idx < Len(is_child) THEN [is_child EXCEPT ![child_idx + 1] = TRUE]
    ELSE is_child

MarkFirstChildOnly(is_child, children, k) ==
    IF Len(children) = 0 THEN is_child ELSE MarkChild(is_child, children[1])

\* for &child_idx in &node.children { .. }, from the child at position k on
RECURSIVE MarkChildren(_, _, _)
MarkChildren(is_child, children, k) ==
    IF k > Len(children) THEN is_child
    ELSE MarkChildren(MarkChild(is_child, children[k]), children, k + 1)

\* for node in &nodes { .. }, from the node at position k on
RECURSIVE MarkNodes(_, _, _)
MarkNodes(is_child, nodes, k) ==
    IF k > Len(nodes) THEN is_child
    ELSE MarkNodes(MarkChildren(is_child, nodes[k].children, 1), nodes, k + 1)

RECURSIVE CollectMarked(_, _)
CollectMarked(is_child, k) ==
    IF k > Len(is_child) THEN <<>>
    ELSE (IF is_child[k] THEN <<k - 1>> ELSE <<>>) \o CollectMarked(is_child, k + 1)

\* is_child.iter().enumerate().filter_map(|(i, &is_c)| if !is_c { Some(i) } else { None })
\* .collect(), from the marker at position k on
RECURSIVE CollectUnmarked(_, _)
CollectUnmarked(is_child, k) ==
    IF k > Len(is_child) THEN <<>>
    ELSE (IF ~is_child[k] THEN <<k - 1>> ELSE <<>>) \o CollectUnmarked(is_child, k + 1)

\* the else branch: all nodes without parents
RootsByElimination(nodes) ==
    CollectUnmarked(MarkNodes([j \in 1..Len(nodes) |-> FALSE], nodes, 1), 1)

RootNodesIgnoringScene(document, nodes) == RootsByElimination(nodes)

\* let root_nodes = if let Some(scene) = document.default_scene() { .. } else { .. }
RootNodes(document, nodes) ==
    IF document.default_scene.tag = "Some" THEN document.default_scene.v
    ELSE RootsByElimination(nodes)

load_gltf(a) ==
    IF a.tag = "Err" THEN [tag |-> "Err", err |-> MapImportError(a.error)]
    ELSE LET document == a.document
             materials == [j \in 1..Len(document.materials) |->
                              LoadMaterial(document.materials[j])]
             meshes == [j \in 1..Len(document.meshes) |-> LoadMesh(document.meshes[j])]
             nodes == [j \in 1..Len(document.nodes) |-> LoadNode(document.nodes[j])]
             root_nodes == RootNodes(document, nodes)
         IN  [tag |-> "Ok",
              value |-> [meshes |-> meshes,
                         materials |-> materials,
                         nodes |-> nodes,
                         root_nodes |-> root_nodes]]

-----------------------------------------------------------------------------
(* The assets of the load_gltf specification: what gltf::import yields *)

\* gltf::import fails: the file is missing, or its container or JSON is malformed
ImportErrors == {"Io", "Deserialize", "Validation"}

IdentityTransform ==
    [translation |-> <<F(0), F(0), F(0)>>,
     rotation |-> <<F(0), F(0), F(0), F(1)>>,
     scale |-> <<F(1), F(1), F(1)>>]

SrcNode(children, mesh) ==
    [name |-> None, transform |-> IdentityTransform, mesh |-> mesh, children |-> children]

SrcMaterial0 ==
    [name |-> None,
     base_color_factor |-> <<F(1), F(1), F(1), F(1)>>,
     metallic_factor |-> F(1),
     roughness_factor |-> F(1),
     base_color_texture |-> Some(0)]

\* The lists of n sequences over S whose lengths sum to at most e
RECURSIVE ListsOfSeqs(_, _, _)
ListsOfSeqs(S, n, e) ==
    IF n = 0 THEN {<<>>}
    ELSE UNION {{<<first>> \o rest : rest \in ListsOfSeqs(S, n - 1, e - Len(first))} :
                    first \in SeqUpTo(S, e)}

\* A document of n nodes with the children lists cc and the default scene s; no mesh
NodeDocument(n, cc, s) ==
    [materials |-> <<>>,
     meshes |-> <<>>,
     nodes |-> [j \in 1..n |-> SrcNode(cc[j], None)],
     default_scene |-> s]

\* The primitives of the documents: with or without positions, with or without material
DocPrimitives ==
    [positions : OptionOf({<<<<F(1), F(0), F(0)>>>>}),
     normals : {None},
     tex_coords0 : {None},
     indices : {None},
     material : OptionOf({0})]

\* A document of n meshes with the primitive lists pc; one node per mesh, no default
\* scene
MeshDocument(n, pc) ==
    [materials |-> <<SrcMaterial0>>,
     meshes |-> [j \in 1..n |-> [name |-> None, primitives |-> pc[j]]],
     nodes |-> [j \in 1..n |-> SrcNode(<<>>, Some(j - 1))],
     default_scene |-> None]

ImportErr(e) == [tag |-> "Err", error |-> e]
ImportOk(d) == [tag |-> "Ok", document |-> d]

-----------------------------------------------------------------------------
(* Button (src/src/ui/widget.rs).  The rect and the mouse position enter the methods *)
(* only through self.rect.contains(position, parent_size); `inside` is its value.   *)

\* Button::new: state Normal, clicked false
ButtonNew == [state |-> "Normal", clicked |-> FALSE]

\* A method's effect: the button after the call and the value returned ("unit" for
\* a method that returns nothing)
Effect(b, ret) == [button |-> b, ret |-> ret]

was_clicked_no_reset(b) == Effect(b, b.clicked)

\* let result = self.clicked; self.clicked = false; result
was_clicked(b) == Effect([b EXCEPT !.clicked = FALSE], b.clicked)

\* self.state = if disabled { Disabled } else { Normal }
set_disabled(b, disabled) ==
    Effect([b EXCEPT !.state = IF disabled THEN "Disabled" ELSE "Normal"], "unit")

\* self.state == WidgetState::Disabled
is_disabled(b) == Effect(b, b.state = "Disabled")

on_mouse_move(b, inside) ==
    IF b.state = "Disabled" THEN Effect(b, "unit")
    ELSE IF inside
         THEN (IF b.state # "Pressed" THEN Effect([b EXCEPT !.state = "Hovered"], "unit")
               ELSE Effect(b, "unit"))
         ELSE (IF b.state # "Pressed" THEN Effect([b EXCEPT !.state = "Normal"], "unit")
               ELSE Effect(b, "unit"))

on_mouse_down_resets_outside(b, inside) ==
    IF b.state = "Disabled" THEN Effect(b, FALSE)
    ELSE IF inside THEN Effect([b EXCEPT !.state = "Pressed"], TRUE)
         ELSE Effect([b EXCEPT !.state = "Normal"], FALSE)

on_mouse_down(b, inside) ==
    IF b.state = "Disabled" THEN Effect(b, FALSE)
    ELSE IF inside THEN Effect([b EXCEPT !.state = "Pressed"], TRUE)
         ELSE Effect(b, FALSE)

on_mouse_up_keeps_pressed(b, inside) ==
    IF b.state = "Pressed"
    THEN (IF inside THEN Effect([b EXCEPT !.clicked = TRUE], TRUE)
          ELSE Effect([b EXCEPT !.state = "Normal"], FALSE))
    ELSE Effect(b, FALSE)

on_mouse_up(b, inside) ==
    IF b.state = "Pressed"
    THEN (IF inside THEN Effect([b EXCEPT !.clicked = TRUE, !.state = "Hovered"], TRUE)
          ELSE Effect([b EXCEPT !.state = "Normal"], FALSE))
    ELSE Effect(b, FALSE)

\* The button variables of the specifications that hold no button
NoButton ==
    /\ button = None
    /\ last_call = None
    /\ releases = 0

-----------------------------------------------------------------------------
(* Specification of load_gltf: one call on one asset *)

\* The asset is a failed import, a document that varies the node list and the default
\* scene, or a document that varies the mesh list.  A child index may be out of range
\* (0..MaxNodes holds an index >= the node count of every document): the code provides
\* for it.  A default scene lists existing nodes, in any order, repeats allowed.
Init ==
    /\ \/ \E e \in ImportErrors : asset = ImportErr(e)
       \/ \E n \in 0..MaxNodes :
            \E cc \in ListsOfSeqs(0..MaxNodes, n, MaxEdges) :
                \E s \in OptionOf(SeqUpTo(0..(n - 1), MaxSceneNodes)) :
                    asset = ImportOk(NodeDocument(n, cc, s))
       \/ \E n \in 0..MaxMeshes :
            \E pc \in ListsOfSeqs(DocPrimitives, n, MaxPrims) :
                asset = ImportOk(MeshDocument(n, pc))
    /\ result = Pending
    /\ primitive = None
    /\ prim_frame = Pending
    /\ loaded_material = None
    /\ engine_material = Pending
    /\ NoButton

LoadGltf ==
    /\ result = Pending
    /\ result' = load_gltf(asset)
    /\ UNCHANGED <<asset, primitive, prim_frame, loaded_material, engine_material>>
    /\ UNCHANGED button_vars

Next == LoadGltf

Spec == Init /\ [][Next]_vars

(* Specification of load_primitive: one call on one source primitive *)

InitPrimitive ==
    /\ primitive \in SourcePrimitives
    /\ prim_frame = Pending
    /\ asset = None
    /\ result = Pending
    /\ loaded_material = None
    /\ engine_material = Pending
    /\ NoButton

LoadPrimitive ==
    /\ prim_frame = Pending
    /\ prim_frame' = load_primitive_frame(primitive)
    /\ UNCHANGED <<asset, result, primitive, loaded_material, engine_material>>
    /\ UNCHANGED button_vars

NextPrimitive == LoadPrimitive

SpecPrimitive == InitPrimitive /\ [][NextPrimitive]_vars

(* Specification of to_material: one call on one loaded material *)

InitMaterial ==
    /\ loaded_material \in LoadedMaterials
    /\ engine_material = Pending
    /\ asset = None
    /\ result = Pending
    /\ primitive = None
    /\ prim_frame = Pending
    /\ NoButton

ToMaterial ==
    /\ engine_material = Pending
    /\ engine_material' = [tag |-> "Returned", v |-> to_material(loaded_material)]
    /\ UNCHANGED <<asset, result, primitive, prim_frame, loaded_material>>
    /\ UNCHANGED button_vars

NextMaterial == ToMaterial

SpecMaterial == InitMaterial /\ [][NextMaterial]_vars

-----------------------------------------------------------------------------
(* Claims about root resolution (load_gltf) *)

Range(seq) == {seq[j] : j \in 1..Len(seq)}

IsAscending(seq) == \A j \in 1..(Len(seq) - 1) : seq[j] < seq[j + 1]

\* Every index some node of the source document lists as a child
ChildIndices(nodes) == UNION {Range(nodes[k].children) : k \in 1..Len(nodes)}

\* The parents of node i: the Rust indices of the nodes that list i as a child
Parents(nodes, i) == {k \in 0..(Len(nodes) - 1) : i \in Range(nodes[k + 1].children)}

ReturnedOk == asset.tag = "Ok" /\ result.tag = "Ok"

NoDefaultScene == asset.tag = "Ok" /\ asset.document.default_scene.tag = "None"

\* C1: without a default scene, root_nodes lists, in ascending order and once each,
\* exactly the node indices that no node's children list contains.
C1_RootsByElimination ==
    (ReturnedOk /\ NoDefaultScene) =>
        LET nodes == asset.document.nodes
            roots == result.value.root_nodes
        IN  /\ IsAscending(roots)
            /\ Range(roots) = {i \in 0..(Len(nodes) - 1) : i \notin ChildIndices(nodes)}

\* C1 witness: a node with two parents is left out, and a node nobody references is a root
C1_Witness ==
    /\ ReturnedOk
    /\ NoDefaultScene
    /\ \E i \in 0..(Len(asset.document.nodes) - 1) :
            /\ Cardinality(Parents(asset.document.nodes, i)) >= 2
            /\ i \notin Range(result.value.root_nodes)
    /\ Len(result.value.root_nodes) >= 2

\* C2: with a default scene, root_nodes is that scene's node list, same indices in the
\* same order, whatever the children lists are.
C2_RootsFromDefaultScene ==
    (ReturnedOk /\ asset.document.default_scene.tag = "Some") =>
        result.value.root_nodes = asset.document.default_scene.v

\* C2 witness: the scene lists a node that is some node's child, and leaves out a node
\* that nobody references
C2_Witness ==
    /\ ReturnedOk
    /\ asset.document.default_scene.tag = "Some"
    /\ \E i \in Range(result.value.root_nodes) : i \in ChildIndices(asset.document.nodes)
    /\ \E i \in 0..(Len(asset.document.nodes) - 1) :
            /\ i \notin ChildIndices(asset.document.nodes)
            /\ i \notin Range(result.value.root_nodes)

HasOutOfRangeChild ==
    /\ asset.tag = "Ok"
    /\ \E c \in ChildIndices(asset.document.nodes) : c >= Len(asset.document.nodes)

InRange(nodes, c) == c < Len(nodes)

\* The asset with every out-of-range child entry taken out of the children lists
WithoutOutOfRangeChildren(a) ==
    [a EXCEPT !.document.nodes =
        [k \in 1..Len(@) |->
            [@[k] EXCEPT !.children = SelectSeq(@, LAMBDA c : InRange(a.document.nodes, c))]]]

\* C3: without a default scene, a child index >= len(nodes) does not fail the decode,
\* and the roots are those of the same document without the out-of-range entries.
C3_OutOfRangeChildIgnored ==
    (result.tag # "Pending" /\ NoDefaultScene /\ HasOutOfRangeChild) =>
        /\ result.tag = "Ok"
        /\ result.value.root_nodes =
              load_gltf(WithoutOutOfRangeChildren(asset)).value.root_nodes

\* C3 witness: a decoded document whose last node is a root although another node
\* lists an out-of-range child
C3_Witness ==
    /\ ReturnedOk
    /\ NoDefaultScene
    /\ HasOutOfRangeChild
    /\ Len(asset.document.nodes) >= 2
    /\ (Len(asset.document.nodes) - 1) \in Range(result.value.root_nodes)

-----------------------------------------------------------------------------
(* Claims about load_primitive *)

Decoded == prim_frame.tag = "Returned" /\ prim_frame.ret.tag = "Some"

\* C4: every index of a returned primitive is below the length of its vertex list.
C4_IndicesBelowVertexCount ==
    Decoded =>
        \A j \in 1..Len(prim_frame.ret.v.indices) :
            prim_frame.ret.v.indices[j] < Len(prim_frame.ret.v.vertices)

\* C5: the vertex list of a returned primitive is as long as the normal list and as
\* the UV list it was built from.
C5_AttributeListsSameLength ==
    Decoded =>
        /\ Len(prim_frame.ret.v.vertices) = Len(prim_frame.normals.v)
        /\ Len(prim_frame.ret.v.vertices) = Len(prim_frame.uvs.v)

\* C6: when the source has no normals every decoded vertex has the normal (0, 1, 0),
\* when it has no first UV channel every decoded vertex has the UV (0, 0), and each
\* decoded vertex keeps the source position of its index; with both absent there is
\* one vertex per source position.
C6_AbsentAttributesDefaulted ==
    Decoded =>
        LET vs == prim_frame.ret.v.vertices
            no_normals == primitive.normals.tag = "None"
            no_uvs == primitive.tex_coords0.tag = "None"
        IN  /\ no_normals => \A j \in 1..Len(vs) : vs[j].normal = <<0, Den, 0>>
            /\ no_uvs => \A j \in 1..Len(vs) : vs[j].uv = <<0, 0>>
            /\ (no_normals \/ no_uvs) =>
                  /\ Len(vs) <= Len(primitive.positions.v)
                  /\ \A j \in 1..Len(vs) : vs[j].position = primitive.positions.v[j]
            /\ (no_normals /\ no_uvs) => Len(vs) = Len(primitive.positions.v)

\* C6 witness: a primitive with positions and neither normals nor UVs was decoded
C6_Witness ==
    /\ Decoded
    /\ primitive.normals.tag = "None"
    /\ primitive.tex_coords0.tag = "None"
    /\ Len(prim_frame.ret.v.vertices) >= 2

\* C7: when the source has no index data the index list is 0, 1, ..., n - 1 in that
\* order, n the length of the decoded vertex list.
C7_SequentialIndices ==
    (Decoded /\ primitive.indices.tag = "None") =>
        /\ Len(prim_frame.ret.v.indices) = Len(prim_frame.ret.v.vertices)
        /\ \A j \in 1..Len(prim_frame.ret.v.indices) : prim_frame.ret.v.indices[j] = j - 1

\* C7 witness: indices were synthesized for a primitive whose vertex list is shorter
\* than its position list
C7_Witness ==
    /\ Decoded
    /\ primitive.indices.tag = "None"
    /\ Len(prim_frame.ret.v.vertices) >= 1
    /\ Len(prim_frame.ret.v.vertices) < Len(primitive.positions.v)

-----------------------------------------------------------------------------
(* Claims about meshes and errors (load_gltf) *)

HasPositions(prim) == prim.positions.tag = "Some"

PositionsOf(vertices) == [j \in 1..Len(vertices) |-> vertices[j].position]

\* C8: a primitive without positions is dropped and nothing else is: the decode
\* returns Ok, with one mesh per source mesh in source order, each holding the decoded
\* forms of its primitives that have positions, in source order.
C8_PrimitivesWithoutPositionsDropped ==
    (asset.tag = "Ok" /\ result.tag # "Pending") =>
        /\ result.tag = "Ok"
        /\ Len(result.value.meshes) = Len(asset.document.meshes)
        /\ \A m \in 1..Len(asset.document.meshes) :
              LET kept == SelectSeq(asset.document.meshes[m].primitives, HasPositions)
                  decoded == result.value.meshes[m].primitives
              IN  /\ Len(decoded) = Len(kept)
                  /\ \A j \in 1..Len(kept) :
                        /\ decoded[j].material_index = kept[j].material
                        /\ PositionsOf(decoded[j].vertices) = kept[j].positions.v

\* C8 witness: one mesh lost all its primitives and is emitted empty, another lost a
\* primitive that stands before one it kept
C8_Witness ==
    /\ ReturnedOk
    /\ \E m \in 1..Len(asset.document.meshes) :
            /\ Len(asset.document.meshes[m].primitives) >= 1
            /\ Len(result.value.meshes[m].primitives) = 0
    /\ \E m \in 1..Len(asset.document.meshes) :
            /\ Len(asset.document.meshes[m].primitives) = 2
            /\ ~HasPositions(asset.document.meshes[m].primitives[1])
            /\ Len(result.value.meshes[m].primitives) = 1

\* C9: a failed import returns Err(IoError) and no LoadedGltf, and no call returns
\* ParseError or MissingData.
C9_ImportFailureIsIoError ==
    (result.tag # "Pending") =>
        /\ asset.tag = "Err" =>
              /\ result.tag = "Err"
              /\ result.err.kind = "IoError"
              /\ "value" \notin DOMAIN result
        /\ result.tag = "Err" => result.err.kind \notin {"ParseError", "MissingData"}

\* C9 witness: the call on a file whose JSON does not deserialize has returned
C9_Witness ==
    /\ asset.tag = "Err"
    /\ asset.error = "Deserialize"
    /\ result.tag = "Err"

-----------------------------------------------------------------------------
(* Claim about to_material *)

\* C10: to_material gives color = base color RGB without alpha, specular =
\* 1 - roughness, shininess = 32 * (1 - roughness) + 1 and use_texture = a base color
\* texture is present; roughness 0.25 gives specular 0.75 and shininess 25.
C10_ToMaterial ==
    (engine_material.tag = "Returned") =>
        LET m == loaded_material
            e == engine_material.v
        IN  /\ e.color = SubSeq(m.base_color, 1, 3)
            /\ e.specular = Den - m.roughness
            /\ e.shininess = 32 * (Den - m.roughness) + Den
            /\ e.use_texture <=> (m.base_color_texture # None)
            /\ (4 * m.roughness = Den) => (4 * e.specular = 3 * Den /\ e.shininess = 25 * Den)

\* C10 witness: a textured material of roughness 0.25 whose alpha differs from its
\* red component was converted
C10_Witness ==
    /\ engine_material.tag = "Returned"
    /\ 4 * loaded_material.roughness = Den
    /\ loaded_material.base_color_texture.tag = "Some"
    /\ loaded_material.base_color[4] # loaded_material.base_color[1]
    /\ engine_material.v.use_texture

-----------------------------------------------------------------------------
(* Claims about the returned LoadedGltf as a whole *)

\* C12: the indices of root_nodes are pairwise distinct, whether they come from a
\* default scene or from elimination.
C12_RootNodesDistinct ==
    ReturnedOk => Cardinality(Range(result.value.root_nodes)) = Len(result.value.root_nodes)

IsIndexInto(opt_or_idx, list) == opt_or_idx < Len(list)

-----------------------------------------------------------------------------
(* Claim about walking the hierarchy from the roots *)

\* The children a walk of the node list visits from node i
ChildrenOf(nodes, i) == {c \in Range(nodes[i + 1].children) : c < Len(nodes)}

\* The nodes within k steps of the set S along the children lists
RECURSIVE ReachWithin(_, _, _)
ReachWithin(nodes, S, k) ==
    IF k = 0 THEN S
    ELSE ReachWithin(nodes, S \cup UNION {ChildrenOf(nodes, i) : i \in S}, k - 1)

ReachableFrom(nodes, S) == ReachWithin(nodes, S, Len(nodes))

OnCycle(nodes, i) == i \in ReachableFrom(nodes, ChildrenOf(nodes, i))

AllChildrenInRange(nodes) ==
    \A k \in 1..Len(nodes) : \A c \in Range(nodes[k].children) : c < Len(nodes)

\* C16: without a default scene, if the children lists are acyclic and in range then
\* every node is reachable from a root (so a non-empty node list has a root); if every
\* node lies on a cycle there is no root, and no node is reachable from one.
C16_RootsReachEveryNode ==
    (ReturnedOk /\ NoDefaultScene) =>
        LET nodes == result.value.nodes
            roots == Range(result.value.root_nodes)
            all == 0..(Len(nodes) - 1)
        IN  /\ (AllChildrenInRange(nodes) /\ \A i \in all : ~OnCycle(nodes, i)) =>
                  /\ ReachableFrom(nodes, roots) = all
                  /\ Len(nodes) > 0 => roots # {}
            /\ (\A i \in all : OnCycle(nodes, i)) =>
                  /\ roots = {}
                  /\ ReachableFrom(nodes, roots) = {}

\* C16 witness: an acyclic chain of three nodes was decoded; its one root reaches a
\* node two steps away
C16_Witness ==
    /\ ReturnedOk
    /\ NoDefaultScene
    /\ AllChildrenInRange(result.value.nodes)
    /\ \A i \in 0..(Len(result.value.nodes) - 1) : ~OnCycle(result.value.nodes, i)
    /\ Len(result.value.nodes) = 3
    /\ Len(result.value.root_nodes) = 1
    /\ \E i \in 0..2 :
          /\ i \notin ReachWithin(result.value.nodes, Range(result.value.root_nodes), 1)
          /\ i \in ReachableFrom(result.value.nodes, Range(result.value.root_nodes))

\* The decoded documents in which every node lies on a cycle, a self-reference included
C16_CyclicCase ==
    /\ ReturnedOk
    /\ NoDefaultScene
    /\ Len(result.value.nodes) >= 2
    /\ \A i \in 0..(Len(result.value.nodes) - 1) : OnCycle(result.value.nodes, i)

-----------------------------------------------------------------------------
(* Specification of the Button: any sequence of calls on one button *)

InitButton ==
    /\ button = ButtonNew
    /\ last_call = [op |-> "new", arg |-> "none", pre |-> ButtonNew, pre_releases |-> 0,
                    ret |-> "unit"]
    /\ releases = 0
    /\ asset = None
    /\ result = Pending
    /\ primitive = None
    /\ prim_frame = Pending
    /\ loaded_material = None
    /\ engine_material = Pending

\* One call: the button becomes the one the method leaves, and the call is recorded
Call(op, arg, effect) ==
    /\ button' = effect.button
    /\ last_call' = [op |-> op, arg |-> arg, pre |-> button, pre_releases |-> releases,
                     ret |-> effect.ret]
    /\ UNCHANGED <<asset, result, primitive, prim_frame, loaded_material, engine_material>>

WasClicked ==
    /\ Call("was_clicked", "none", was_clicked(button))
    /\ releases' = 0

SetDisabled ==
    \E disabled \in BOOLEAN :
        /\ Call("set_disabled", disabled, set_disabled(button, disabled))
        /\ UNCHANGED releases

IsDisabled ==
    /\ Call("is_disabled", "none", is_disabled(button))
    /\ UNCHANGED releases

OnMouseMove ==
    \E inside \in BOOLEAN :
        /\ Call("on_mouse_move", inside, on_mouse_move(button, inside))
        /\ UNCHANGED releases

OnMouseDown ==
    \E inside \in BOOLEAN :
        /\ Call("on_mouse_down", inside, on_mouse_down(button, inside))
        /\ UNCHANGED releases

\* The count of releases is kept within MaxReleases
OnMouseUp ==
    \E inside \in BOOLEAN :
        /\ on_mouse_up(button, inside).ret => releases < MaxReleases
        /\ Call("on_mouse_up", inside, on_mouse_up(button, inside))
        /\ releases' = IF on_mouse_up(button, inside).ret THEN releases + 1 ELSE releases

NextButton ==
    \/ WasClicked
    \/ SetDisabled
    \/ IsDisabled
    \/ OnMouseMove
    \/ OnMouseDown
    \/ OnMouseUp

SpecButton == InitButton /\ [][NextButton]_vars

-----------------------------------------------------------------------------
(* Claims about the Button *)

IsCall(op) == last_call.op = op

\* What C14 says of the state after a call
C14_AfterCall ==
    /\ (IsCall("on_mouse_down") /\ last_call.arg /\ last_call.pre.state # "Disabled") =>
          /\ last_call.ret = TRUE
          /\ button.state = "Pressed"
    /\ (IsCall("on_mouse_up") /\ last_call.arg /\ last_call.pre.state = "Pressed") =>
          /\ last_call.ret = TRUE
          /\ button.state = "Hovered"
          /\ button.clicked
    /\ (IsCall("was_clicked") /\ last_call.pre.clicked) => last_call.ret = TRUE

\* A click that is registered stays registered until was_clicked is called
C14_ClickKept == (button.clicked /\ last_call'.op # "was_clicked") => button'.clicked

\* C14: on a button that is not Disabled, on_mouse_down inside the rect returns true
\* and leaves the state Pressed; on_mouse_up inside the rect while Pressed returns
\* true, leaves the state Hovered and registers a click, which no other call takes
\* away, so that the next was_clicked returns true.
C14_PressAndRelease == [](C14_AfterCall) /\ [][C14_ClickKept]_vars

\* C14 witness: was_clicked returned true on a Hovered button after a release inside
C14_Witness ==
    /\ IsCall("was_clicked")
    /\ last_call.ret = TRUE
    /\ last_call.pre.state = "Hovered"
    /\ last_call.pre_releases = 1

\* C15: on_mouse_down outside the rect returns false and changes neither the state
\* nor the clicked flag.
C15_MouseDownOutside ==
    (IsCall("on_mouse_down") /\ ~last_call.arg) =>
        /\ last_call.ret = FALSE
        /\ button.state = last_call.pre.state
        /\ button.clicked = last_call.pre.clicked

\* C15 witness: on_mouse_down outside the rect of a Hovered button with a click
\* registered has returned
C15_Witness ==
    /\ IsCall("on_mouse_down")
    /\ ~last_call.arg
    /\ last_call.pre.state = "Hovered"
    /\ last_call.pre.clicked
    /\ button.state = "Hovered"

\* C17: was_clicked returns true exactly when some on_mouse_up returned true since
\* the previous was_clicked (or since Button::new), and leaves nothing for a second
\* was_clicked to return; on_mouse_up returns true only on a Pressed button with the
\* position inside the rect, and never on a Disabled one.
C17_ClickedIffReleased ==
    /\ IsCall("was_clicked") =>
          /\ last_call.ret = (last_call.pre_releases > 0)
          /\ ~button.clicked
          /\ releases = 0
    /\ button.clicked = (releases > 0)
    /\ IsCall("on_mouse_up") =>
          /\ last_call.ret = (last_call.pre.state = "Pressed" /\ last_call.arg)
          /\ last_call.pre.state = "Disabled" =>
                /\ last_call.ret = FALSE
                /\ releases = last_call.pre_releases
                /\ button = last_call.pre

\* C17 witness: was_clicked returned true on a Disabled button whose click was
\* registered before it was disabled
C17_Witness ==
    /\ IsCall("was_clicked")
    /\ last_call.ret = TRUE
    /\ last_call.pre.state = "Disabled"
    /\ ~button.clicked

====
